---- MODULE Spec2Model ----
(***************************************************************************)
(* dusk-uds: the worker-pool variant of UnixDomainSocket::bind (uds.rs),   *)
(* the worker loop (worker.rs) and the task queue they share.              *)
(*                                                                         *)
(* Threads: the binder (the caller of bind), options.workers worker        *)
(* threads and one listener thread.  They communicate through one          *)
(* mpsc channel of Task; its Receiver sits in an Arc<Mutex<..>> shared by  *)
(* the binder and every worker, its Sender is cloned into every worker     *)
(* and into the listener.                                                  *)
(***************************************************************************)
EXTENDS Naturals, Sequences, FiniteSets

\* Largest worker count (options.workers) explored.
MaxWorkers == 2

\* Number of iterations of the listener's accept loop explored.
MaxConn == 3

\* Number of messages the handlers of the single-loop variant send.
MaxPosts == 3

WorkerIds == 1..MaxWorkers

VARIABLES
    workers,     \* options.workers
    bindPc,      \* the binder's position in bind()
    result,      \* what bind() returned: "pending", "Ok" or the failed step
    spawned,     \* worker threads spawned so far
    joined,      \* worker threads joined so far
    wpc,         \* each worker's position in worker()
    wtask,       \* the task a worker owns (NoTask when it owns none)
    guard,       \* the workers holding a MutexGuard of rx (at most one)
    poisoned,    \* whether the Mutex of rx is poisoned
    queue,       \* the channel's buffer, head first
    lpc,         \* the listener thread's position
    accepts,     \* items the listener has taken from listener.incoming()
    hist,        \* history: what has happened so far (never read by the program)
    chan,        \* the channel handles worker() was given by its caller
    state,       \* lib.rs: UnixDomainSocket::state
    msgs,        \* lib.rs: the messages buffered between tx and rx
    loopPc,      \* lib.rs: the position of bind() in its accept loop
    loopRes,     \* lib.rs: what bind() returned
    conns,       \* lib.rs: items taken from listener.incoming()
    handlers,    \* lib.rs: handler threads spawned
    posted       \* lib.rs: messages the handlers have sent

\* lib.rs: the state of the single-loop variant.
loopVars == <<state, msgs, loopPc, loopRes, conns, handlers, posted>>

\* uds.rs, worker.rs: the state of the worker-pool variant.
poolVars == <<workers, bindPc, result, spawned, joined, wpc, wtask, guard,
              poisoned, queue, lpc, accepts, hist, chan>>

vars == <<poolVars, loopVars>>

\* communication.rs: enum Message
ShouldQuit == "ShouldQuit"
Success == "Success"
Message == {ShouldQuit, Success}

\* communication.rs: enum Task.  id names the instance (the n-th value ever
\* sent on the channel); the program never reads it.
SocketTask(n) == [kind |-> "Socket", m |-> "-", id |-> n]
MessageTask(msg, n) == [kind |-> "Message", m |-> msg, id |-> n]
NoTask == [kind |-> "-", m |-> "-", id |-> 0]

\* A worker thread that has been spawned and has neither returned nor panicked.
Running(w) == wpc[w] \notin {"unspawned", "done", "panicked"}

\* bind() owns tx and rx from their creation until it returns.
BinderHoldsChannel == bindPc \in {"listen", "spawnWorkers", "spawnListener", "join"}

\* lib.rs 16-27: enum State.
State == {"Closed", "Listening", "ShouldQuit"}

\* lib.rs 57-70: UnixDomainSocket::new, bind not called.
LoopUnused ==
    /\ state = "Closed"
    /\ msgs = <<>>
    /\ loopPc = "new"
    /\ loopRes = "pending"
    /\ conns = 0
    /\ handlers = 0
    /\ posted = 0

\* uds.rs 57, 69-70: bind gives every worker a clone of tx and a handle of
\* rx, the two ends of one channel, and keeps no Sender besides its tx.
PairedChannel == [tx |-> "rx", held |-> 0, sent |-> 0]

\* Arc::strong_count of rx is positive: the binder's handle or some worker's r.
RxAlive == BinderHoldsChannel \/ \E w \in WorkerIds : Running(w)

\* Mutant of Senders: only the listener's clone of tx is counted.
SendersListenerOnly == IF lpc = "accepting" THEN 1 ELSE 0

\* Live Senders of the channel behind rx: the binder's tx, every running
\* worker's t when it is a Sender of that channel, the listener's t, and
\* those the caller of worker() holds.
Senders ==
    (IF BinderHoldsChannel THEN 1 ELSE 0)
    + (IF chan.tx = "rx" THEN Cardinality({w \in WorkerIds : Running(w)}) ELSE 0)
    + (IF lpc = "accepting" THEN 1 ELSE 0)
    + chan.held

Init ==
    /\ workers \in 0..MaxWorkers
    /\ bindPc = "cleanup"
    /\ result = "pending"
    /\ spawned = 0
    /\ joined = 0
    /\ wpc = [w \in WorkerIds |-> "unspawned"]
    /\ wtask = [w \in WorkerIds |-> NoTask]
    /\ guard = {}
    /\ poisoned = FALSE
    /\ queue = <<>>
    /\ lpc = "unspawned"
    /\ accepts = 0
    /\ hist = [sent |-> 0, quits |-> 0, deq |-> <<>>, orphaned |-> <<>>,
               acceptedOk |-> 0, handoffFailed |-> 0]
    /\ chan = PairedChannel
    /\ LoopUnused

\* ---------------------------------------------------------------- bind()

\* Mutant of Try: the error of a step is ignored and bind goes on.
TryIgnored(ok, next) == next

\* The `?` of uds.rs 43, 54 and 62: an Err returns from bind at once, an Ok
\* goes on to the next step.
Try(ok, next) == IF ok THEN next ELSE "returned"

\* uds.rs 42-44: remove the path if it exists; `?` returns the error.
BindCleanup ==
    /\ bindPc = "cleanup"
    /\ \E exists \in BOOLEAN, removed \in BOOLEAN :
          /\ bindPc' = Try(~exists \/ removed, "path")
          /\ result' = IF ~exists \/ removed THEN result ELSE "Err(remove_file)"
    /\ UNCHANGED <<loopVars, chan, workers, spawned, joined, wpc, wtask, guard, poisoned,
                   queue, lpc, accepts, hist>>

\* uds.rs 47-54: the path as a str; a path that is not UTF-8 is an error.
BindPath ==
    /\ bindPc = "path"
    /\ \E utf8 \in BOOLEAN :
          /\ bindPc' = Try(utf8, "channel")
          /\ result' = IF utf8 THEN result ELSE "Err(to_str)"
    /\ UNCHANGED <<loopVars, chan, workers, spawned, joined, wpc, wtask, guard, poisoned,
                   queue, lpc, accepts, hist>>

\* uds.rs 57-59: the channel, its receiver behind Arc<Mutex<..>>.
BindChannel ==
    /\ bindPc = "channel"
    /\ bindPc' = "listen"
    /\ queue' = <<>>
    /\ guard' = {}
    /\ poisoned' = FALSE
    /\ UNCHANGED <<loopVars, chan, workers, result, spawned, joined, wpc, wtask, lpc, accepts, hist>>

\* uds.rs 62: UnixListener::bind(path)?.  On an error the locals tx and rx
\* are dropped with the return.
BindListen ==
    /\ bindPc = "listen"
    /\ \E bound \in BOOLEAN :
          /\ bindPc' = Try(bound, "spawnWorkers")
          /\ result' = IF bound THEN result ELSE "Err(bind)"
    /\ UNCHANGED <<loopVars, chan, workers, spawned, joined, wpc, wtask, guard, poisoned,
                   queue, lpc, accepts, hist>>

\* Mutant of SpawnMore: the pool is given at least one worker.
SpawnMoreAtLeastOne == spawned < workers \/ spawned = 0

\* uds.rs 67: the range 0..options.workers has a next element.
SpawnMore == spawned < workers

\* uds.rs 67-75: one thread::spawn per element of 0..options.workers; the
\* collect ends the step once all are spawned.
BindSpawnWorker ==
    /\ bindPc = "spawnWorkers"
    /\ IF SpawnMore
          THEN /\ spawned' = spawned + 1
               /\ wpc' = [wpc EXCEPT ![spawned + 1] = "lock"]
               /\ UNCHANGED bindPc
          ELSE /\ bindPc' = "spawnListener"
               /\ UNCHANGED <<spawned, wpc>>
    /\ UNCHANGED <<loopVars, chan, workers, result, joined, wtask, guard, poisoned, queue, lpc,
                   accepts, hist>>

\* uds.rs 80-92: the listener thread, with its own clone of tx; its
\* JoinHandle is discarded.
BindSpawnListener ==
    /\ bindPc = "spawnListener"
    /\ lpc' = "accepting"
    /\ bindPc' = "join"
    /\ UNCHANGED <<loopVars, chan, workers, result, spawned, joined, wpc, wtask, guard, poisoned,
                   queue, accepts, hist>>

\* Mutant of Joinable: the binder does not wait for the thread.
JoinableAtOnce(w) == TRUE

\* JoinHandle::join returns once the thread has ended, by return or by panic.
Joinable(w) == wpc[w] \in {"done", "panicked"}

\* uds.rs 95-99: join the workers in spawn order; a panicked worker is
\* logged and the loop goes on.
BindJoin ==
    /\ bindPc = "join"
    /\ joined < workers
    /\ Joinable(joined + 1)
    /\ joined' = joined + 1
    /\ UNCHANGED <<loopVars, chan, workers, bindPc, result, spawned, wpc, wtask, guard, poisoned,
                   queue, lpc, accepts, hist>>

\* uds.rs 101-102: Ok(()), dropping the binder's tx and rx.  When no worker
\* holds the Arc any more the Receiver is dropped and, with it, what the
\* channel still buffers.
BindReturn ==
    /\ bindPc = "join"
    /\ joined = workers
    /\ bindPc' = "returned"
    /\ result' = "Ok"
    /\ IF \E w \in WorkerIds : Running(w)
          THEN UNCHANGED <<queue, hist>>
          ELSE /\ queue' = <<>>
               /\ hist' = [hist EXCEPT !.orphaned = queue]
    /\ UNCHANGED <<loopVars, chan, workers, spawned, joined, wpc, wtask, guard, poisoned, lpc,
                   accepts>>

Binder ==
    \/ BindCleanup
    \/ BindPath
    \/ BindChannel
    \/ BindListen
    \/ BindSpawnWorker
    \/ BindSpawnListener
    \/ BindJoin
    \/ BindReturn

\* ---------------------------------------------------------------- worker()

\* Mutant of SendOk: a send succeeds whether or not a Receiver is left.
SendOkAlways == TRUE

\* mpsc::Sender::send: the value is appended to the buffer; it fails only
\* when the Receiver of the Sender's channel has been dropped.
SendOk == chan.tx = "rx" /\ RxAlive

\* Mutant of Unwrap: the error is logged and the worker goes on.
UnwrapLogged(ok, next) == next

\* worker.rs 24, 33, 53, 66: map_err logs the error and unwrap panics.
Unwrap(ok, next) == IF ok THEN next ELSE "panicked"

\* Mutant of PoisonedBy: the guard is released before the panic.
PoisonedByNone(w) == FALSE

\* std::sync::Mutex: a panic of worker w poisons the mutex when w holds its
\* guard (worker.rs 18-33: the guard lives to the end of the statement).
PoisonedBy(w) == w \in guard

\* Mutant of Enqueue: a sent value goes to the head of the buffer.
EnqueueAtHead(q, t) == <<t>> \o q

\* mpsc::Sender::send: the value goes to the tail of the buffer.
Enqueue(q, t) == Append(q, t)

\* The Arc<Mutex<Receiver>> is dropped with its last handle: worker w ends
\* while neither the binder nor another worker holds one.
LastHandle(w) ==
    /\ ~BinderHoldsChannel
    /\ \A v \in WorkerIds \ {w} : ~Running(v)

\* Mutant of LockFree: the receiver is shared without mutual exclusion.
LockFreeAlways == TRUE

\* Mutex::lock returns only while no other thread holds the guard.
LockFree == guard = {}

\* worker.rs 18-24: rx.lock() blocks while another worker holds the guard;
\* a poisoned mutex is an Err, and unwrap panics.
WorkerLock(w) ==
    /\ wpc[w] = "lock"
    /\ LockFree
    /\ wpc' = [wpc EXCEPT ![w] = Unwrap(~poisoned, "recv")]
    /\ guard' = IF poisoned THEN guard ELSE {w}
    /\ UNCHANGED <<loopVars, chan, workers, bindPc, result, spawned, joined, wtask, poisoned,
                   queue, lpc, accepts, hist>>

\* Mutant of Arm: a control task falls through to the catch-all arm.
ArmNoControl(t) == IF t.kind = "Socket" THEN "block_on" ELSE "lock"

\* worker.rs 35, 36, 57, 70: the arm of the match a task selects.
Arm(t) ==
    IF t.kind = "Socket" THEN "block_on"
    ELSE IF t.kind = "Message" /\ t.m = ShouldQuit THEN "rebroadcast"
    ELSE "lock"

\* Mutant of Recv: the newest value is taken first.
RecvNewest(q) == [task |-> q[Len(q)], rest |-> SubSeq(q, 1, Len(q) - 1)]

\* mpsc::Receiver::recv on a buffer that is not empty: the oldest value is
\* taken out of the buffer.
Recv(q) == [task |-> Head(q), rest |-> Tail(q)]

\* Mutant of Release: the guard is bound to a name and lives on through the
\* loop body.
ReleaseNever(g, w) == g

\* worker.rs 33: the guard is a temporary and is dropped at the end of the
\* statement that dequeues.
Release(g, w) == g \ {w}

\* worker.rs 25-35: recv() under the guard.  It blocks while the buffer is
\* empty and a Sender lives; with no Sender left it is an Err and unwrap
\* panics with the guard alive, which poisons the mutex.  The guard is a
\* temporary of the statement and is released at its end.
WorkerRecv(w) ==
    /\ wpc[w] = "recv"
    /\ w \in guard
    /\ \/ /\ queue # <<>>
          /\ wtask' = [wtask EXCEPT ![w] =
                          IF Arm(Recv(queue).task) = "lock" THEN NoTask
                          ELSE Recv(queue).task]
          /\ queue' = Recv(queue).rest
          /\ wpc' = [wpc EXCEPT ![w] = Arm(Recv(queue).task)]
          /\ hist' = [hist EXCEPT !.deq = Append(@, Recv(queue).task)]
          /\ UNCHANGED poisoned
       \/ /\ queue = <<>>
          /\ Senders = 0
          /\ wpc' = [wpc EXCEPT ![w] = Unwrap(FALSE, "recv")]
          /\ poisoned' = (poisoned \/ PoisonedBy(w))
          /\ UNCHANGED <<wtask, queue, hist>>
    /\ guard' = Release(guard, w)
    /\ UNCHANGED <<loopVars, chan, workers, bindPc, result, spawned, joined, lpc, accepts>>

\* Mutant of AfterBlockOn: a worker whose unit of work yields ShouldQuit
\* stops at once instead of relaying.
AfterBlockOnBreak(message) == IF message = ShouldQuit THEN "done" ELSE "lock"

\* Mutant of AfterBlockOn: every outcome is relayed.
AfterBlockOnAlways(message) == "relay"

\* worker.rs 44: only a ShouldQuit outcome is relayed.
AfterBlockOn(message) == IF message = ShouldQuit THEN "relay" ELSE "lock"

\* Mutant of RelayQueue: an outcome is relayed only while no control task is
\* queued already.
RelayUnlessQueued(q, n) ==
    IF \E i \in DOMAIN q : q[i].kind = "Message"
        THEN q
        ELSE Append(q, MessageTask(ShouldQuit, n))

\* Mutant of RelayQueue: the ShouldQuit outcome is dropped.
RelayNothing(q, n) == q

\* worker.rs 45: the control task a ShouldQuit outcome puts on the queue.
RelayQueue(q, n) == Enqueue(q, MessageTask(ShouldQuit, n))

\* Mutant of RebroadcastQueue: the retiring worker sends two control tasks.
RebroadcastTwice(q, n) ==
    Append(Append(q, MessageTask(ShouldQuit, n)), MessageTask(ShouldQuit, n))

\* Mutant of RebroadcastQueue: the retiring worker sends nothing.
RebroadcastNothing(q, n) == q

\* worker.rs 58: the control task a retiring worker puts on the queue.
RebroadcastQueue(q, n) == Enqueue(q, MessageTask(ShouldQuit, n))

\* worker.rs 37-44: drive the provider on the socket to completion; the
\* provider decides the Message.  Success goes back to the head of the loop.
WorkerBlockOn(w) ==
    /\ wpc[w] = "block_on"
    /\ \E message \in Message :
          /\ wpc' = [wpc EXCEPT ![w] = AfterBlockOn(message)]
          /\ wtask' = [wtask EXCEPT ![w] =
                          IF AfterBlockOn(message) = "relay" THEN @ ELSE NoTask]
          /\ hist' = [hist EXCEPT !.quits =
                          IF message = ShouldQuit THEN @ + 1 ELSE @]
    /\ UNCHANGED <<loopVars, chan, workers, bindPc, result, spawned, joined, guard, poisoned,
                   queue, lpc, accepts>>

\* worker.rs 45-53: send Task::Message(ShouldQuit); a failed send panics.
\* Then the loop goes on.
WorkerRelay(w) ==
    /\ wpc[w] = "relay"
    /\ IF SendOk
          THEN /\ queue' = RelayQueue(queue, hist.sent + 1)
               /\ hist' = [hist EXCEPT !.sent = @ + 1]
          ELSE UNCHANGED <<queue, hist>>
    /\ wpc' = [wpc EXCEPT ![w] = Unwrap(SendOk, "lock")]
    /\ wtask' = [wtask EXCEPT ![w] = NoTask]
    /\ UNCHANGED <<loopVars, chan, workers, bindPc, result, spawned, joined, guard, poisoned,
                   lpc, accepts>>

\* worker.rs 58-67: send Task::Message(ShouldQuit), then break: the worker
\* returns and its handles t and r are dropped.
WorkerRebroadcast(w) ==
    /\ wpc[w] = "rebroadcast"
    /\ IF SendOk
          THEN /\ IF LastHandle(w)
                     THEN /\ queue' = <<>>
                          /\ hist' = [hist EXCEPT
                                 !.sent = @ + 1,
                                 !.orphaned = RebroadcastQueue(queue, hist.sent + 1)]
                     ELSE /\ queue' = RebroadcastQueue(queue, hist.sent + 1)
                          /\ hist' = [hist EXCEPT !.sent = @ + 1]
          ELSE UNCHANGED <<queue, hist>>
    /\ wpc' = [wpc EXCEPT ![w] = Unwrap(SendOk, "done")]
    /\ wtask' = [wtask EXCEPT ![w] = NoTask]
    /\ UNCHANGED <<loopVars, chan, workers, bindPc, result, spawned, joined, guard, poisoned,
                   lpc, accepts>>

Worker(w) ==
    \/ WorkerLock(w)
    \/ WorkerRecv(w)
    \/ WorkerBlockOn(w)
    \/ WorkerRelay(w)
    \/ WorkerRebroadcast(w)

\* ---------------------------------------------------------------- listener

\* uds.rs 82-91: one item of listener.incoming().  An accepted socket is sent
\* as Task::Socket; an accept error or a failed send is logged and the loop
\* goes on.
ListenerAccept ==
    /\ lpc = "accepting"
    /\ accepts < MaxConn
    /\ accepts' = accepts + 1
    /\ \E socket \in {"Ok", "Err"} :
          IF socket = "Ok"
              THEN IF SendOk
                      THEN /\ queue' = Enqueue(queue, SocketTask(hist.sent + 1))
                           /\ hist' = [hist EXCEPT !.sent = @ + 1,
                                                   !.acceptedOk = @ + 1]
                      ELSE /\ hist' = [hist EXCEPT !.acceptedOk = @ + 1,
                                                   !.handoffFailed = @ + 1]
                           /\ UNCHANGED queue
              ELSE UNCHANGED <<queue, hist>>
    /\ UNCHANGED <<loopVars, chan, workers, bindPc, result, spawned, joined, wpc, wtask, guard,
                   poisoned, lpc>>

\* uds.rs 82, 92: incoming() is exhausted (the listening socket is closed
\* from outside); the closure returns and its Sender is dropped.
ListenerEnd ==
    /\ lpc = "accepting"
    /\ lpc' = "ended"
    /\ UNCHANGED <<loopVars, chan, workers, bindPc, result, spawned, joined, wpc, wtask, guard,
                   poisoned, queue, accepts, hist>>

Listener == ListenerAccept \/ ListenerEnd

Next ==
    \/ Binder
    \/ \E w \in WorkerIds : Worker(w)
    \/ Listener

Spec == Init /\ [][Next]_vars

\* Threads that can run are scheduled: a worker or the binder that stays able
\* to take its next step takes it.  The listener depends on its peers and
\* gets no fairness.
FairSpec ==
    /\ Spec
    /\ \A w \in WorkerIds : WF_vars(Worker(w))
    /\ WF_vars(Binder)

\* ------------------------------------------------- worker() and its caller

\* worker.rs 7-16: worker() takes its Sender and its Receiver handle as
\* separate parameters, and its doc tells the caller that it panics on a
\* broken task channel.  Here every worker thread is started by a caller
\* other than bind: tx is a Sender either of the channel behind rx or of a
\* channel whose Receiver has been dropped, and the caller holds one Sender
\* of the channel behind rx.
WorkerInit ==
    /\ workers \in 1..MaxWorkers
    /\ bindPc = "caller"
    /\ result = "pending"
    /\ spawned = workers
    /\ joined = 0
    /\ wpc = [w \in WorkerIds |-> IF w <= workers THEN "lock" ELSE "unspawned"]
    /\ wtask = [w \in WorkerIds |-> NoTask]
    /\ guard = {}
    /\ poisoned = FALSE
    /\ queue = <<>>
    /\ lpc = "unspawned"
    /\ accepts = 0
    /\ hist = [sent |-> 0, quits |-> 0, deq |-> <<>>, orphaned |-> <<>>,
               acceptedOk |-> 0, handoffFailed |-> 0]
    /\ chan \in {[tx |-> t, held |-> 1, sent |-> 0] : t \in {"rx", "dropped"}}
    /\ LoopUnused

\* communication.rs 4-9: the caller sends any Task on the channel behind rx.
CallerSend ==
    /\ bindPc = "caller"
    /\ chan.held > 0
    /\ chan.sent < MaxConn
    /\ RxAlive
    /\ \E t \in {SocketTask(hist.sent + 1)}
                \cup {MessageTask(m, hist.sent + 1) : m \in Message} :
          queue' = Enqueue(queue, t)
    /\ hist' = [hist EXCEPT !.sent = @ + 1]
    /\ chan' = [chan EXCEPT !.sent = @ + 1]
    /\ UNCHANGED <<loopVars, workers, bindPc, result, spawned, joined, wpc, wtask,
                   guard, poisoned, lpc, accepts>>

\* The caller drops its Sender of the channel behind rx.
CallerDrop ==
    /\ bindPc = "caller"
    /\ chan.held > 0
    /\ chan' = [chan EXCEPT !.held = 0]
    /\ UNCHANGED <<loopVars, workers, bindPc, result, spawned, joined, wpc, wtask,
                   guard, poisoned, queue, lpc, accepts, hist>>

WorkerNext ==
    \/ \E w \in WorkerIds : Worker(w)
    \/ CallerSend
    \/ CallerDrop

WorkerSpec == WorkerInit /\ [][WorkerNext]_vars

\* ------------------------------------------------- lib.rs: single loop

\* The worker-pool variant is not running.
PoolUnused ==
    /\ workers = 0
    /\ bindPc = "unused"
    /\ result = "pending"
    /\ spawned = 0
    /\ joined = 0
    /\ wpc = [w \in WorkerIds |-> "unspawned"]
    /\ wtask = [w \in WorkerIds |-> NoTask]
    /\ guard = {}
    /\ poisoned = FALSE
    /\ queue = <<>>
    /\ lpc = "unspawned"
    /\ accepts = 0
    /\ hist = [sent |-> 0, quits |-> 0, deq |-> <<>>, orphaned |-> <<>>,
               acceptedOk |-> 0, handoffFailed |-> 0]
    /\ chan = PairedChannel

LoopInit == PoolUnused /\ LoopUnused

\* lib.rs 22-26: the discriminant of a State.
StateCode(st) ==
    IF st = "Closed" THEN 0 ELSE IF st = "Listening" THEN 1 ELSE 2

\* Mutant of IsListening: any state but Closed counts as listening.
IsListeningOrQuit == StateCode(state) >= 1

\* lib.rs 97-99: is_listening, state as u8 == 0x01.
IsListening == StateCode(state) = 1

\* lib.rs 133-148: remove the path, convert it, bind the listener and set
\* the state to Listening; a failure of the first three returns the error.
LoopBind ==
    /\ loopPc = "new"
    /\ \E ok \in BOOLEAN :
          IF ok
              THEN /\ state' = "Listening"
                   /\ loopPc' = "accept"
                   /\ UNCHANGED loopRes
              ELSE /\ loopPc' = "returned"
                   /\ loopRes' = "Err"
                   /\ UNCHANGED state
    /\ UNCHANGED <<poolVars, msgs, conns, handlers, posted>>

\* lib.rs 150-157: one item of listener.incoming(); a socket gets a handler
\* thread with a clone of tx, an error is logged.
LoopAccept ==
    /\ loopPc = "accept"
    /\ conns < MaxConn
    /\ conns' = conns + 1
    /\ \E socket \in {"Ok", "Err"} :
          handlers' = IF socket = "Ok" THEN handlers + 1 ELSE handlers
    /\ loopPc' = "drain"
    /\ UNCHANGED <<poolVars, state, msgs, loopRes, posted>>

\* lib.rs 101-106, 159-161: rx.try_iter() yields the oldest buffered
\* message, which receive_message applies with set_state; it ends when the
\* buffer is empty.
LoopDrain ==
    /\ loopPc = "drain"
    /\ IF msgs # <<>>
          THEN /\ state' = Head(msgs)
               /\ msgs' = Tail(msgs)
               /\ UNCHANGED loopPc
          ELSE /\ loopPc' = "check"
               /\ UNCHANGED <<state, msgs>>
    /\ UNCHANGED <<poolVars, loopRes, conns, handlers, posted>>

\* lib.rs 163-170: break unless listening; after the loop bind returns Ok.
LoopCheck ==
    /\ loopPc = "check"
    /\ IF IsListening
          THEN /\ loopPc' = "accept"
               /\ UNCHANGED loopRes
          ELSE /\ loopPc' = "returned"
               /\ loopRes' = "Ok"
    /\ UNCHANGED <<poolVars, state, msgs, conns, handlers, posted>>

\* lib.rs 29-34, 127-131, 154: a handler thread sends
\* Message::ChangeState(st) on its clone of tx.
HandlerSend ==
    /\ handlers > 0
    /\ posted < MaxPosts
    /\ posted' = posted + 1
    /\ \E st \in State : msgs' = Append(msgs, st)
    /\ UNCHANGED <<poolVars, state, loopPc, loopRes, conns, handlers>>

LoopNext ==
    \/ LoopBind
    \/ LoopAccept
    \/ LoopDrain
    \/ LoopCheck
    \/ HandlerSend

LoopSpec == LoopInit /\ [][LoopNext]_vars

\* ---------------------------------------------------------------- history

\* The tasks dequeued so far, oldest first.
Dequeued == hist.deq

\* The number of control tasks in a sequence of tasks.
Controls(q) == Cardinality({i \in DOMAIN q : q[i].kind = "Message"})

\* Every task sent so far: still buffered, dequeued, or dropped unprocessed
\* with the receiver.
Range(q) == {q[i] : i \in DOMAIN q}

AllSent == Range(queue) \cup Range(Dequeued) \cup Range(hist.orphaned)

Count(pcs) == Cardinality({w \in WorkerIds : wpc[w] \in pcs})

Pool == 1..workers

\* The unit of work of a dequeued socket task has been driven to completion.
Completed(t) ==
    /\ t \in Range(Dequeued)
    /\ \A w \in WorkerIds : ~(wpc[w] = "block_on" /\ wtask[w] = t)

\* The socket tasks sent before the first control task.
SocketsAhead ==
    {t \in AllSent : /\ t.kind = "Socket"
                     /\ \A c \in AllSent : c.kind = "Message" => t.id < c.id}

\* ---------------------------------------------------------------- claims

\* C1 (termination), under FairSpec: once a unit of work has yielded
\* ShouldQuit, every worker of the pool eventually returns and bind returns
\* Ok; a worker that has returned stays so; and the control tasks dequeued
\* never number more than the workers.
C1_Termination ==
    /\ (hist.quits >= 1) ~> (result = "Ok" /\ \A w \in Pool : wpc[w] = "done")
    /\ [](Controls(Dequeued) <= workers)
    /\ [][\A w \in WorkerIds : wpc[w] = "done" => wpc'[w] = "done"]_vars

C1_Witness ==
    /\ workers >= 2
    /\ hist.quits = 1
    /\ Controls(Dequeued) = workers
    /\ result = "Ok"
    /\ accepts >= 2

\* C2 (relay conservation): in every reachable state the number of control
\* tasks dequeued equals the number of workers that have retired through the
\* control arm (one that has dequeued a control task and is about to break
\* counts), and the control tasks ever sent are exactly one per completed
\* relay of a ShouldQuit outcome plus one per retired worker.
C2_RelayConservation ==
    /\ Controls(Dequeued) = Count({"rebroadcast", "done"})
    /\ Controls(queue) + Controls(Dequeued) + Controls(hist.orphaned)
          + Count({"relay"})
       = hist.quits + Count({"done"})

C2_Witness ==
    /\ Controls(Dequeued) >= 2
    /\ Count({"done"}) >= 1
    /\ Count({"rebroadcast"}) >= 1

\* C3 (no signal loss), under FairSpec: the relay of a ShouldQuit outcome
\* puts exactly one control task at the tail of the queue, and whenever a
\* worker holds such an outcome some worker eventually returns.
C3_NoSignalLoss ==
    /\ (\E w \in WorkerIds : wpc[w] = "relay")
          ~> (\E w \in WorkerIds : wpc[w] = "done")
    /\ [][\A w \in WorkerIds :
            (wpc[w] = "relay" /\ wpc'[w] # "relay")
            => /\ Len(queue') = Len(queue) + 1
               /\ queue'[Len(queue')].kind = "Message"
               /\ queue'[Len(queue')].m = ShouldQuit]_vars

C3_Witness ==
    /\ hist.quits >= 2
    /\ Count({"done"}) = 1
    /\ Count({"block_on"}) = 1

\* C4 (work isolation): a unit of work that ends with Success leaves the
\* queue as it is and its worker running; and while no unit of work has
\* yielded ShouldQuit, no control task is in the queue and no worker has
\* ended.
C4_WorkIsolation ==
    /\ [](hist.quits = 0 =>
            /\ Controls(queue) = 0
            /\ \A w \in WorkerIds : wpc[w] \notin {"rebroadcast", "done", "panicked"})
    /\ [][\A w \in WorkerIds :
            (wpc[w] = "block_on" /\ wpc'[w] # "block_on" /\ hist'.quits = hist.quits)
            => /\ queue' = queue
               /\ wpc'[w] = "lock"]_vars

C4_Witness ==
    /\ hist.quits = 0
    /\ Len(Dequeued) >= 2
    /\ \A i \in DOMAIN Dequeued : Completed(Dequeued[i])

\* C5 (concurrent dequeue exclusivity): no task is dequeued twice, no two
\* workers own the same task, and at most one worker holds the guard of the
\* receiver, so at most one is in recv at any instant.
C5_DequeueExclusivity ==
    /\ \A i, j \in DOMAIN Dequeued : Dequeued[i].id = Dequeued[j].id => i = j
    /\ \A v, w \in WorkerIds :
          (v # w /\ wtask[v] # NoTask) => wtask[v].id # wtask[w].id
    /\ Cardinality(guard) <= 1
    /\ Count({"recv"}) <= 1
    /\ \A w \in WorkerIds : wpc[w] = "recv" <=> w \in guard

C5_Witness ==
    /\ Len(Dequeued) >= 2
    /\ \E v, w \in WorkerIds :
          /\ wpc[v] = "recv"
          /\ wpc[w] = "lock"
          /\ queue # <<>>

\* C6 (join before success): whenever bind has returned Ok, every worker of
\* the pool has been spawned and has ended.
C6_OkAfterAllWorkers ==
    result = "Ok" => \A w \in Pool : wpc[w] \in {"done", "panicked"}

C6_Witness ==
    /\ result = "Ok"
    /\ workers >= 2
    /\ \A w \in Pool : wpc[w] = "done"

\* C7 (queue ahead of the signal): once every worker of a pool has ended,
\* every socket task sent before the first control task has been dequeued
\* and its unit of work driven to completion.
C7_QueueAheadProcessed ==
    (workers >= 1 /\ \A w \in Pool : wpc[w] \in {"done", "panicked"})
        => \A t \in SocketsAhead : Completed(t)

C7_Witness ==
    /\ result = "Ok"
    /\ workers >= 2
    /\ Cardinality(SocketsAhead) >= 2

\* C8 (fail-fast bind): when the removal of the path, the conversion of the
\* path or the socket bind has failed, bind has returned that error and no
\* worker thread and no listener thread has been started.
C8_FailFastBind ==
    result \notin {"pending", "Ok"} =>
        /\ bindPc = "returned"
        /\ spawned = 0
        /\ lpc = "unspawned"
        /\ \A w \in WorkerIds : wpc[w] = "unspawned"

C8_Witness ==
    /\ result = "Err(bind)"
    /\ workers >= 1

\* C9 (no shutdown without a signal): in a pool of at least one worker, while
\* no unit of work has yielded ShouldQuit no worker has ended and bind has
\* not returned Ok, also after the listener loop has ended with nothing
\* accepted.
C9_BlockedWithoutSignal ==
    (workers >= 1 /\ hist.quits = 0) =>
        /\ result # "Ok"
        /\ \A w \in Pool : spawned >= w => Running(w)

C9_Witness ==
    /\ workers = 1
    /\ lpc = "ended"
    /\ accepts = 0
    /\ bindPc = "join"
    /\ wpc[1] = "recv"
    /\ queue = <<>>

\* C11 (relay, then go on): the worker whose unit of work yielded ShouldQuit
\* puts exactly one control task at the tail of the queue and goes back to
\* the lock; a worker returns only from the control arm, holding a control
\* task it has dequeued itself, and in the step in which it sends one more.
C11_RelayThenContinue ==
    /\ [][\A w \in WorkerIds :
            (wpc[w] = "relay" /\ wpc'[w] # "relay")
            => /\ wpc'[w] = "lock"
               /\ queue' = Append(queue, MessageTask(ShouldQuit, hist'.sent))
               /\ hist'.sent = hist.sent + 1]_vars
    /\ [][\A w \in WorkerIds :
            (wpc[w] # "done" /\ wpc'[w] = "done")
            => /\ wpc[w] = "rebroadcast"
               /\ wtask[w].kind = "Message"
               /\ wtask[w].m = ShouldQuit
               /\ wtask[w] \in Range(Dequeued)
               /\ hist'.sent = hist.sent + 1
               /\ Controls(queue') + Controls(hist'.orphaned)
                     = Controls(queue) + Controls(hist.orphaned) + 1]_vars

C11_Witness ==
    /\ workers = 1
    /\ hist.quits = 1
    /\ wpc[1] = "done"
    /\ Len(Dequeued) >= 3

\* The control tasks that are buffered: in the queue, or in what the queue
\* held when the receiver was dropped.
Trailing == Controls(queue) + Controls(hist.orphaned)

PoolEnded == workers >= 1 /\ \A w \in Pool : wpc[w] = "done"

\* C12 (the token is neither lost nor amplified): the control tasks buffered
\* plus those a worker has dequeued and not yet sent on equal the ShouldQuit
\* outcomes relayed so far; until bind returns all of them are in the queue;
\* with one trigger there is one, and once the pool has ended exactly one
\* control task is left unconsumed.
C12_TokenConserved ==
    /\ Trailing + Count({"rebroadcast"}) + Count({"relay"}) = hist.quits
    /\ result # "Ok" => hist.orphaned = <<>>
    /\ (hist.quits = 1 /\ Count({"relay"}) = 0)
          => Trailing + Count({"rebroadcast"}) = 1
    /\ (hist.quits = 1 /\ PoolEnded) => Trailing = 1

C12_Witness ==
    /\ workers >= 2
    /\ hist.quits = 1
    /\ PoolEnded
    /\ result = "pending"
    /\ Controls(queue) = 1

\* C13 (concurrent triggers), under FairSpec: when two units of work have
\* yielded ShouldQuit before either is relayed, the pool still ends and bind
\* returns Ok; once the pool has ended each worker has consumed exactly one
\* control task and as many control tasks are left unconsumed as there were
\* triggers.
C13_ConcurrentTriggers ==
    /\ (Count({"relay"}) >= 2) ~> (result = "Ok" /\ PoolEnded)
    /\ [](PoolEnded => /\ Controls(Dequeued) = workers
                       /\ Trailing = hist.quits)

C13_Witness ==
    /\ Count({"relay"}) = 2
    /\ hist.quits = 2
    /\ Trailing + Controls(Dequeued) = 0

\* C14 (the lock covers the dequeue only): a worker holds the guard in recv
\* and nowhere else, it gives the guard up in the step that dequeues, and
\* while a worker drives a unit of work a worker waiting for the free lock
\* can take it.
C14_LockOnlyForDequeue ==
    /\ [](\A w \in WorkerIds :
            wpc[w] \in {"block_on", "relay", "rebroadcast", "lock", "done"}
            => w \notin guard)
    /\ [][\A w \in WorkerIds :
            (wpc[w] = "recv" /\ wpc'[w] # "recv") => w \notin guard']_vars
    /\ [](\A v, w \in WorkerIds :
            (wpc[v] = "block_on" /\ wpc[w] = "lock" /\ guard = {})
            => ENABLED WorkerLock(w))

C14_Witness ==
    \E v, w \in WorkerIds :
        /\ wpc[v] = "block_on"
        /\ wpc[w] = "recv"
        /\ w \in guard
        /\ queue # <<>>

\* A send of worker w fails in this step: w is at a send and the Receiver
\* of its Sender's channel is gone.
SendFails(w) == wpc[w] \in {"relay", "rebroadcast"} /\ ~SendOk /\ wpc'[w] # wpc[w]

\* C15 as stated (a failed enqueue attempt in a worker is only logged): the
\* step of a failed send does not end the worker abnormally.
C15_FailedSendOnlyLogged ==
    [][\A w \in WorkerIds : SendFails(w) => wpc'[w] # "panicked"]_vars

\* C15 (amended), under WorkerSpec: a failed send in a worker, after a
\* ShouldQuit outcome or in the control arm, is logged and then panics that
\* worker: nothing is enqueued and the worker thread ends abnormally.  The
\* other workers and the lock are left as they are.
C15_FailedSendPanics ==
    [][\A w \in WorkerIds :
          SendFails(w)
          => /\ wpc'[w] = "panicked"
             /\ queue' = queue
             /\ hist'.sent = hist.sent
             /\ poisoned' = poisoned
             /\ guard' = guard
             /\ \A v \in WorkerIds \ {w} : wpc'[v] = wpc[v]]_vars

C15_Witness ==
    /\ chan.tx = "dropped"
    /\ workers >= 2
    /\ hist.quits >= 1
    /\ Count({"panicked"}) = 1
    /\ Count({"block_on"}) = 1
    /\ ~poisoned

\* C16 as stated (the fault of a dequeue that finds no producer ends only
\* that worker): no worker fails at the lock.
C16_OthersNotFailed ==
    [][\A w \in WorkerIds : wpc[w] = "lock" => wpc'[w] # "panicked"]_vars

\* C16 (amended), under WorkerSpec: a worker whose dequeue finds the buffer
\* empty and no Sender left panics without sending a control task; it
\* panics holding the guard, so the mutex is poisoned, no worker dequeues
\* any more and every other worker panics at its next lock.
C16_NoProducersPoisons ==
    /\ [][\A w \in WorkerIds :
            (wpc[w] = "recv" /\ wpc'[w] = "panicked")
            => /\ queue = <<>>
               /\ Senders = 0
               /\ queue' = queue
               /\ hist'.sent = hist.sent
               /\ poisoned'
               /\ guard' = {}]_vars
    /\ [][\A w \in WorkerIds :
            (wpc[w] = "lock" /\ wpc'[w] # "lock")
            => wpc'[w] = IF poisoned THEN "panicked" ELSE "recv"]_vars
    /\ [](poisoned => /\ Count({"recv"}) = 0
                      /\ Count({"panicked"}) >= 1)
    /\ [][poisoned => (poisoned' /\ hist'.deq = hist.deq)]_vars

C16_Witness ==
    /\ poisoned
    /\ workers >= 2
    /\ Count({"panicked"}) = workers
    /\ Len(Dequeued) >= 1

C18_NoPanicInPool ==
    /\ ~poisoned
    /\ Count({"panicked"}) = 0
    /\ \A w \in WorkerIds : Running(w) => (Senders >= 1 /\ SendOk)

C18_Witness ==
    /\ lpc = "ended"
    /\ Count({"done"}) = 1
    /\ Count({"rebroadcast"}) = 1
    /\ queue = <<>>

\* The control task dequeued last.
LastControl ==
    LET C == {t \in Range(Dequeued) : t.kind = "Message"}
    IN  CHOOSE c \in C : \A d \in C : d.id <= c.id

C20_ZeroWorkers ==
    workers = 0 =>
        /\ spawned = 0
        /\ \A w \in WorkerIds : wpc[w] = "unspawned"
        /\ Dequeued = <<>>
        /\ hist.quits = 0
        /\ bindPc = "join" => ENABLED BindReturn
        /\ result = "Ok" => lpc # "unspawned"

C20_Witness ==
    /\ workers = 0
    /\ result = "Ok"
    /\ lpc = "accepting"
    /\ \E i \in DOMAIN hist.orphaned : hist.orphaned[i].kind = "Socket"
    /\ hist.handoffFailed >= 1

\* C10 as stated (the listener may keep enqueuing connection tasks while
\* workers retire and after bind has returned): in a pool of at least one
\* worker, every socket the listener has accepted was put on the queue.
C10_EnqueuesAfterReturn == workers >= 1 => hist.handoffFailed = 0

\* The listener accepts a socket in this step.
AcceptsSocket == hist'.acceptedOk = hist.acceptedOk + 1

\* C10 (amended): the listener loop ends in no step of a worker or of the
\* binder, only in its own; a running listener is left running when bind
\* returns; a socket it accepts before bind has returned is put at the tail
\* of the queue, and one it accepts after bind has returned Ok is not put on
\* the queue: the send fails, the failure is logged and the loop goes on.
C10_ListenerOutsideShutdown ==
    /\ [][(lpc = "accepting" /\ lpc' # "accepting")
            => UNCHANGED <<bindPc, result, wpc, queue, hist>>]_vars
    /\ [][(bindPc = "join" /\ bindPc' = "returned") => lpc' = lpc]_vars
    /\ [][AcceptsSocket =>
            /\ lpc' = "accepting"
            /\ IF result = "Ok"
                  THEN /\ queue' = queue
                       /\ hist'.handoffFailed = hist.handoffFailed + 1
                  ELSE /\ queue' = Append(queue, SocketTask(hist'.sent))
                       /\ hist'.handoffFailed = hist.handoffFailed]_vars

C10_Witness ==
    /\ result = "Ok"
    /\ workers >= 2
    /\ lpc = "accepting"
    /\ Count({"done"}) = workers
    /\ hist.handoffFailed >= 1
    /\ \E i \in DOMAIN Dequeued :
          /\ Dequeued[i].kind = "Socket"
          /\ \E j \in DOMAIN Dequeued : j < i /\ Dequeued[j].kind = "Message"

====
